---- MODULE Spec2Model ----
(***************************************************************************)
(* Model of the suspicion-scoring engine of lmarena.py: the session state  *)
(* (vote_history, suspicion_score, status, triggered_rules,                *)
(* current_prompt), the vote callback handle_vote and the evaluation       *)
(* update_suspicion_score that it runs.                                    *)
(*                                                                         *)
(* The score is a Python float.  It is modelled as an exact decimal        *)
(* number [ip |-> integer part (floor), fr |-> fractional digits], so      *)
(* that `*= 0.9` and `+= n` are computed exactly; floating-point rounding  *)
(* is not modelled.  The fields judge_hash, model_a and model_b of a vote  *)
(* record and the two response texts are constant or display-only and are  *)
(* left out.                                                               *)
(***************************************************************************)
EXTENDS Integers, Sequences, FiniteSets, TLC

VARIABLES vote_history, suspicion_score, status, triggered_rules, current_prompt,
          pc, signals

\* pc is the position of the vote callback: "idle" between two calls,
\* "appended" after the append of line 175, "evaluated" after the call of
\* line 177.  signals holds the five locals of update_suspicion_score when
\* the rule table is explored on its own (SpecRules).
vars == <<vote_history, suspicion_score, status, triggered_rules, current_prompt,
          pc, signals>>

(***************************************************************************)
(* Bounds of the exploration.                                              *)
(***************************************************************************)
\* votes recorded in one explored session
MaxVotes == 6
\* votes of the opening burst of a session explored by SpecDecay
MaxBurst == 6
\* votes that follow the burst in a session explored by SpecDecay
Horizon == 30
\* votes recorded in a session explored step by step (SpecSteps), with
\* replays (SpecReplay) or with unchecked winners (SpecIngest)
MaxShort == 5
\* longest score, in fractional digits, that is evaluated once more
MaxDigits == 40

(***************************************************************************)
(* Program constants.                                                      *)
(***************************************************************************)
\* an evaluation that starts one vote early
MinHistoryTwo == 3 - 1
MinHistory == 3
FastVoteSeconds == 3
BiasWindow == 5
RepetitionMin == 5
FlaggedThreshold == 10
SuspiciousThreshold == 5
FastBiasedPenalty == 4
BiasedBattlesPenalty == 3
FastPromptsPenalty == 2
FastTiesPenalty == 2
StrongBiasPenalty == 1
FastVotingPenalty == 1

InitialPrompt == "Explain the concept of photosynthesis in simple terms."
PromptChoices == <<"Tell me a joke.", "Write a short story.", "Explain gravity.">>
\* the four vote buttons
Winners == {"model_a", "model_b", "tie", "tie (bothbad)"}
BattlePair == <<"model_alpha", "model_beta">>
\* seconds between two calls of datetime.now(): just below and at the limit
Gaps == {2, 3}
\* texts typed into the prompt box before "Generate Responses"
TypedPrompts == {PromptChoices[1]}

StatusNormal == "Normal"
StatusSuspicious == "Suspicious"
StatusFlagged == "FLAGGED"

(***************************************************************************)
(* Decimal arithmetic of the score: value = ip + 0.fr, ip = floor(value).  *)
(***************************************************************************)
Zero == [ip |-> 0, fr |-> <<>>]

\* the digits without their trailing zeros
StripZeros(ds) ==
    LET nonzero == {i \in 1..Len(ds) : ds[i] # 0}
    IN  IF nonzero = {} THEN <<>>
        ELSE SubSeq(ds, 1, CHOOSE i \in nonzero : \A j \in nonzero : j <= i)

\* 9 * 0.ds as [c |-> carry into the units, ds |-> digits]; carry[i] is the
\* carry out of the digits after the i-th
Mul9(ds) ==
    LET n == Len(ds)
        carry[i \in 0..n] == IF i = n THEN 0 ELSE (9 * ds[i + 1] + carry[i + 1]) \div 10
    IN  [c |-> carry[0], ds |-> [i \in 1..n |-> (9 * ds[i] + carry[i]) % 10]]

\* an evaluation without the decay
DecaySkipped(s) == s

\* the decay applied twice in one evaluation
DecayTwice(s) ==
    LET once == LET m == Mul9(s.fr)
                    t == 9 * s.ip + m.c
                IN  [ip |-> t \div 10, fr |-> StripZeros(<<t % 10>> \o m.ds)]
        m2 == Mul9(once.fr)
        t2 == 9 * once.ip + m2.c
    IN  [ip |-> t2 \div 10, fr |-> StripZeros(<<t2 % 10>> \o m2.ds)]

\* s * 0.9, exactly
Decay(s) ==
    LET m == Mul9(s.fr)
        t == 9 * s.ip + m.c
    IN  [ip |-> t \div 10, fr |-> StripZeros(<<t % 10>> \o m.ds)]

\* s + n for an integer n
Plus(s, n) == [s EXCEPT !.ip = @ + n]

\* s >= n for an integer n
AtLeast(s, n) == s.ip >= n

\* max(0, s)
Max0(s) == IF s.ip < 0 THEN Zero ELSE s

(***************************************************************************)
(* Signals of update_suspicion_score, over the whole history h.            *)
(***************************************************************************)
\* (iloc[-1].tstamp - iloc[-2].tstamp).total_seconds() < 3
is_fast_vote(h) == h[Len(h)].tstamp - h[Len(h) - 1].tstamp < FastVoteSeconds

\* history_df.tail(5)
Last5(h) == IF Len(h) <= BiasWindow THEN h ELSE SubSeq(h, Len(h) - BiasWindow + 1, Len(h))

\* a bias test that accepts five equal winners of any kind
has_strong_bias_any(h) ==
    LET last_5_votes == Last5(h)
    IN  /\ Len(last_5_votes) = BiasWindow
        /\ Cardinality({i \in 1..BiasWindow :
                          last_5_votes[i].winner = last_5_votes[1].winner}) = BiasWindow

has_strong_bias(h) ==
    LET last_5_votes == Last5(h)
    IN  /\ Len(last_5_votes) = BiasWindow
        /\ Cardinality({i \in 1..BiasWindow :
                          last_5_votes[i].winner = last_5_votes[1].winner}) = BiasWindow
        /\ last_5_votes[1].winner \in {"model_a", "model_b"}

\* history_df['battle_pair'].value_counts()
BattleCount(h, pair) == Cardinality({i \in 1..Len(h) : h[i].battle_pair = pair})

MaxBattleCount(h) ==
    LET counts == {BattleCount(h, h[i].battle_pair) : i \in 1..Len(h)}
    IN  CHOOSE c \in counts : \A d \in counts : d <= c

\* a pair counted as repetitive one vote early
is_repetitive_battle_early(h) ==
    IF Len(h) > 0 THEN MaxBattleCount(h) >= RepetitionMin ELSE FALSE

\* a pair counted as repetitive one vote late
is_repetitive_battle_late(h) ==
    IF Len(h) > 0 THEN MaxBattleCount(h) > RepetitionMin + 1 ELSE FALSE

is_repetitive_battle(h) == IF Len(h) > 0 THEN MaxBattleCount(h) > RepetitionMin ELSE FALSE

\* history_df['prompt'].nunique()
NUnique(h) == Cardinality({h[i].prompt : i \in 1..Len(h)})

\* prompt_diversity = nunique / len < 0.3, and len > 5
is_repetitive_prompt(h) == 10 * NUnique(h) < 3 * Len(h) /\ Len(h) > RepetitionMin

\* winner.str.contains('tie')
ContainsTie(w) == w \in {"tie", "tie (bothbad)"}

TieCount(h) == Cardinality({i \in 1..Len(h) : ContainsTie(h[i].winner)})

\* tie_rate = ties / len > 0.8, and len > 5
has_excessive_ties(h) == 10 * TieCount(h) > 8 * Len(h) /\ Len(h) > RepetitionMin

Signals(h) ==
    [fast   |-> is_fast_vote(h),
     bias   |-> has_strong_bias(h),
     battle |-> is_repetitive_battle(h),
     prompt |-> is_repetitive_prompt(h),
     ties   |-> has_excessive_ties(h)]

(***************************************************************************)
(* Rule table of update_suspicion_score: the statements run in order on    *)
(* the decayed score and the local set `triggered`.                        *)
(***************************************************************************)
\* an `elif` chain: a rule fires only when none has fired before it
FireRuleFirstOnly(r, cond, penalty, name) ==
    IF cond /\ r.triggered = {}
    THEN [score |-> Plus(r.score, penalty), triggered |-> r.triggered \cup {name}]
    ELSE r

\* `score += penalty; triggered.add(name)` under `if cond`
FireRule(r, cond, penalty, name) ==
    IF cond
    THEN [score |-> Plus(r.score, penalty), triggered |-> r.triggered \cup {name}]
    ELSE r

FastBiasedCond(sig) == sig.fast /\ sig.bias

BiasedBattlesCond(sig) == sig.bias /\ sig.battle

FastPromptsCond(sig) == sig.fast /\ sig.prompt

\* `or` in place of `and`
FastTiesCondOr(sig) == sig.fast \/ sig.ties

FastTiesCond(sig) == sig.fast /\ sig.ties

\* a fallback rule that does not look at `triggered`
NoneTriggeredIgnored(triggered) == TRUE

\* `not triggered`
NoneTriggered(triggered) == triggered = {}

\* the fallback rules tested before the combination rules
ApplyRulesFallbackFirst(score, sig) ==
    LET r0 == [score |-> score, triggered |-> {}]
        r1 == FireRule(r0, sig.bias /\ NoneTriggered(r0.triggered), StrongBiasPenalty,
                       "Strong Bias")
        r2 == FireRule(r1, sig.fast /\ NoneTriggered(r1.triggered), FastVotingPenalty,
                       "Fast Voting")
        r3 == FireRule(r2, FastBiasedCond(sig), FastBiasedPenalty, "Fast & Biased")
        r4 == FireRule(r3, BiasedBattlesCond(sig), BiasedBattlesPenalty,
                       "Biased & Repetitive Battles")
        r5 == FireRule(r4, FastPromptsCond(sig), FastPromptsPenalty,
                       "Fast & Repetitive Prompts")
        r6 == FireRule(r5, FastTiesCond(sig), FastTiesPenalty, "Fast & Excessive Ties")
    IN  r6

ApplyRules(score, sig) ==
    LET r0 == [score |-> score, triggered |-> {}]
        r1 == FireRule(r0, FastBiasedCond(sig), FastBiasedPenalty, "Fast & Biased")
        r2 == FireRule(r1, BiasedBattlesCond(sig), BiasedBattlesPenalty,
                       "Biased & Repetitive Battles")
        r3 == FireRule(r2, FastPromptsCond(sig), FastPromptsPenalty,
                       "Fast & Repetitive Prompts")
        r4 == FireRule(r3, FastTiesCond(sig), FastTiesPenalty, "Fast & Excessive Ties")
        r5 == FireRule(r4, sig.bias /\ NoneTriggered(r4.triggered), StrongBiasPenalty,
                       "Strong Bias")
        r6 == FireRule(r5, sig.fast /\ NoneTriggered(r5.triggered), FastVotingPenalty,
                       "Fast Voting")
    IN  r6

\* the two thresholds tested in the wrong order
ClassifySwapped(score) ==
    IF AtLeast(score, SuspiciousThreshold) THEN StatusSuspicious
    ELSE IF AtLeast(score, FlaggedThreshold) THEN StatusFlagged
    ELSE StatusNormal

\* step 4 of update_suspicion_score
Classify(score) ==
    IF AtLeast(score, FlaggedThreshold) THEN StatusFlagged
    ELSE IF AtLeast(score, SuspiciousThreshold) THEN StatusSuspicious
    ELSE StatusNormal

\* rule names added to those of earlier evaluations
NewTriggeredAccumulated(old, triggered) == old \cup triggered

\* st.session_state.triggered_rules = triggered
NewTriggered(old, triggered) == triggered

\* an evaluation that is skipped when the last event repeats the one before it
update_suspicion_score_dedup(h, st) ==
    IF Len(h) < MinHistory THEN st
    ELSE IF /\ h[Len(h)].winner = h[Len(h) - 1].winner
            /\ h[Len(h)].tstamp = h[Len(h) - 1].tstamp
            /\ h[Len(h)].prompt = h[Len(h) - 1].prompt
         THEN st
    ELSE LET r == ApplyRules(Decay(st.suspicion_score), Signals(h))
             score == Max0(r.score)
         IN  [suspicion_score |-> score,
              status          |-> Classify(score),
              triggered_rules |-> NewTriggered(st.triggered_rules, r.triggered)]

\* a status that, once FLAGGED, is left only after the score falls below
\* the lower threshold
update_suspicion_score_sticky(h, st) ==
    IF Len(h) < MinHistory THEN st
    ELSE LET r == ApplyRules(Decay(st.suspicion_score), Signals(h))
             score == Max0(r.score)
         IN  [suspicion_score |-> score,
              status          |-> IF st.status = StatusFlagged
                                     /\ AtLeast(score, SuspiciousThreshold)
                                  THEN StatusFlagged ELSE Classify(score),
              triggered_rules |-> NewTriggered(st.triggered_rules, r.triggered)]

\* The session state [suspicion_score, status, triggered_rules] that
\* update_suspicion_score leaves, from the state st it finds and the history h.
update_suspicion_score(h, st) ==
    IF Len(h) < MinHistory THEN st
    ELSE LET r == ApplyRules(Decay(st.suspicion_score), Signals(h))
             score == Max0(r.score)
         IN  [suspicion_score |-> score,
              status          |-> Classify(score),
              triggered_rules |-> NewTriggered(st.triggered_rules, r.triggered)]

(***************************************************************************)
(* The vote callback.                                                      *)
(***************************************************************************)
\* the audit field written before the evaluation
AuditScoreStale(before, after) == before

\* vote_history[-1]['suspicion_score_after'] = st.session_state.suspicion_score
AuditScore(before, after) == after

\* vote_history[0] in place of vote_history[-1]
AuditIndexFirst(h) == 1

\* the index -1 of line 179
AuditIndex(h) == Len(h)

\* a battle between two pairs of models in turn
vote_record_two_pairs(winner_choice, now) ==
    [battle_pair |-> IF now % 2 = 0 THEN BattlePair ELSE <<"model_alpha", "model_gamma">>,
     winner      |-> winner_choice,
     tstamp      |-> now,
     prompt      |-> current_prompt]

vote_record(winner_choice, now) ==
    [battle_pair |-> BattlePair,
     winner      |-> winner_choice,
     tstamp      |-> now,
     prompt      |-> current_prompt]

handle_vote(winner_choice, now, new_prompt) ==
    LET appended == Append(vote_history,
                           vote_record(winner_choice, now) @@ [suspicion_score_after |-> Zero])
        before == [suspicion_score |-> suspicion_score,
                   status          |-> status,
                   triggered_rules |-> triggered_rules]
    IN  \E after \in {update_suspicion_score(appended, before)} :
        /\ vote_history' =
              [appended EXCEPT ![AuditIndex(appended)].suspicion_score_after =
                   AuditScore(before.suspicion_score, after.suspicion_score)]
        /\ suspicion_score' = after.suspicion_score
        /\ status' = after.status
        /\ triggered_rules' = after.triggered_rules
        /\ current_prompt' = new_prompt
        /\ UNCHANGED <<pc, signals>>

\* the "Generate Responses" button
generate_responses(prompt_input) ==
    /\ current_prompt' = prompt_input
    /\ UNCHANGED <<vote_history, suspicion_score, status, triggered_rules, pc, signals>>

\* datetime.now() at the next vote
Now(gap) == IF vote_history = <<>> THEN 0 ELSE vote_history[Len(vote_history)].tstamp + gap

\* np.random.choice over the three prompts; the exploration follows the
\* draws of the first one (a prompt other than the initial one)
NewPrompts == {PromptChoices[1]}

\* the locals of update_suspicion_score before any evaluation
NoSignals == [fast |-> FALSE, bias |-> FALSE, battle |-> FALSE, prompt |-> FALSE, ties |-> FALSE]

\* a session that starts below zero
InitNegative ==
    /\ vote_history = <<>>
    /\ suspicion_score = [ip |-> -1, fr |-> <<>>]
    /\ status = StatusNormal
    /\ triggered_rules = {}
    /\ current_prompt = InitialPrompt
    /\ pc = "idle"
    /\ signals = NoSignals

Init ==
    /\ vote_history = <<>>
    /\ suspicion_score = Zero
    /\ status = StatusNormal
    /\ triggered_rules = {}
    /\ current_prompt = InitialPrompt
    /\ pc = "idle"
    /\ signals = NoSignals

Vote ==
    /\ Len(vote_history) < MaxVotes
    /\ \E w \in Winners, gap \in Gaps, p \in NewPrompts : handle_vote(w, Now(gap), p)

Generate == \E p \in TypedPrompts : generate_responses(p)

Next == Vote \/ Generate

Spec == Init /\ [][Next]_vars

(***************************************************************************)
(* A session that opens with a burst of votes for model A and goes on with *)
(* unhurried votes whose winner differs from the previous one.             *)
(***************************************************************************)
LastWinner == vote_history[Len(vote_history)].winner

BurstVote ==
    /\ Len(vote_history) < MaxBurst
    /\ \E gap \in Gaps : handle_vote("model_a", Now(gap), PromptChoices[1])

QuietVote ==
    /\ vote_history # <<>>
    /\ Len(vote_history) < MaxBurst + Horizon
    /\ handle_vote(IF LastWinner = "model_b" THEN "tie" ELSE "model_b",
                   Now(FastVoteSeconds), PromptChoices[1])

NextDecay == BurstVote \/ QuietVote

SpecDecay == Init /\ [][NextDecay]_vars

(***************************************************************************)
(* The vote callback statement by statement: the append of line 175, the   *)
(* call of line 177, the audit write and the rest of lines 179-184.  The   *)
(* script runs one interaction at a time and calls handle_vote             *)
(* synchronously (lines 186-193): a button is served between two calls.    *)
(***************************************************************************)
\* a button served while a callback is running
ButtonReadyAlways == TRUE

ButtonReady == pc = "idle"

\* lines 166-175
append_vote(winner_choice, now) ==
    /\ vote_history' = Append(vote_history, vote_record(winner_choice, now))
    /\ pc' = "appended"
    /\ UNCHANGED <<suspicion_score, status, triggered_rules, current_prompt, signals>>

\* line 177
run_update ==
    /\ pc = "appended"
    /\ \E after \in {update_suspicion_score(vote_history,
                          [suspicion_score |-> suspicion_score,
                           status          |-> status,
                           triggered_rules |-> triggered_rules])} :
          /\ suspicion_score' = after.suspicion_score
          /\ status' = after.status
          /\ triggered_rules' = after.triggered_rules
    /\ pc' = "evaluated"
    /\ UNCHANGED <<vote_history, current_prompt, signals>>

\* lines 179-184
write_audit(new_prompt) ==
    /\ pc = "evaluated"
    /\ vote_history' =
          [vote_history EXCEPT ![AuditIndex(vote_history)] =
               [suspicion_score_after |-> suspicion_score] @@ @]
    /\ current_prompt' = new_prompt
    /\ pc' = "idle"
    /\ UNCHANGED <<suspicion_score, status, triggered_rules, signals>>

PressVote ==
    /\ ButtonReady
    /\ Len(vote_history) < MaxShort
    /\ \E w \in Winners, gap \in Gaps : append_vote(w, Now(gap))

RunUpdate == run_update

WriteAudit == \E p \in NewPrompts : write_audit(p)

PressGenerate == ButtonReady /\ Generate

NextSteps == PressVote \/ RunUpdate \/ WriteAudit \/ PressGenerate

SpecSteps == Init /\ [][NextSteps]_vars

(***************************************************************************)
(* record_vote called again with the event it has just recorded.           *)
(***************************************************************************)
ShortVote ==
    /\ Len(vote_history) < MaxShort
    /\ \E w \in Winners, gap \in Gaps, p \in NewPrompts : handle_vote(w, Now(gap), p)

Replay ==
    /\ vote_history # <<>>
    /\ Len(vote_history) < MaxShort
    /\ current_prompt = vote_history[Len(vote_history)].prompt
    /\ handle_vote(LastWinner, Now(0), current_prompt)

\* the judge asks again for the prompt of the last vote
RepeatPrompt ==
    /\ vote_history # <<>>
    /\ generate_responses(vote_history[Len(vote_history)].prompt)

NextReplay == ShortVote \/ Replay \/ RepeatPrompt

SpecReplay == Init /\ [][NextReplay]_vars

(***************************************************************************)
(* handle_vote called with any winner: the function tests no argument.     *)
(***************************************************************************)
AnyWinners == Winners \cup {"bogus"}

IngestVote ==
    /\ Len(vote_history) < MaxShort
    /\ \E w \in AnyWinners, gap \in Gaps, p \in NewPrompts : handle_vote(w, Now(gap), p)

SpecIngest == Init /\ [][IngestVote]_vars

(***************************************************************************)
(* Steps 1, 3 and 4 of update_suspicion_score on its own: a score and the  *)
(* five signals are drawn, and the body of the function after the signals  *)
(* (lines 49-52 and 77-114) runs once on them.                             *)
(***************************************************************************)
AllSignals ==
    [fast : BOOLEAN, bias : BOOLEAN, battle : BOOLEAN, prompt : BOOLEAN, ties : BOOLEAN]

\* scores before the evaluation: 0, 1, 1.9, 4 and 109.9
PriorScores ==
    {Zero, [ip |-> 1, fr |-> <<>>], [ip |-> 1, fr |-> <<9>>], [ip |-> 4, fr |-> <<>>],
     [ip |-> 109, fr |-> <<9>>]}

InitRules ==
    /\ vote_history = <<>>
    /\ suspicion_score \in PriorScores
    /\ status = Classify(suspicion_score)
    /\ triggered_rules = {}
    /\ current_prompt = InitialPrompt
    /\ pc = "appended"
    /\ signals \in AllSignals

apply_rules ==
    /\ pc = "appended"
    /\ \E r \in {ApplyRules(Decay(suspicion_score), signals)} :
          /\ suspicion_score' = Max0(r.score)
          /\ status' = Classify(Max0(r.score))
          /\ triggered_rules' = NewTriggered(triggered_rules, r.triggered)
    /\ pc' = "evaluated"
    /\ UNCHANGED <<vote_history, current_prompt, signals>>

SpecRules == InitRules /\ [][apply_rules]_vars

(***************************************************************************)
(* Evaluation after evaluation of a judge whose five signals stay as they  *)
(* were drawn: the score from 0.0 under the same penalties at every vote.  *)
(***************************************************************************)
InitSaturate ==
    /\ vote_history = <<>>
    /\ suspicion_score = Zero
    /\ status = StatusNormal
    /\ triggered_rules = {}
    /\ current_prompt = InitialPrompt
    /\ pc = "appended"
    /\ signals \in AllSignals

\* the next call of update_suspicion_score
next_update ==
    /\ pc = "evaluated"
    /\ Len(suspicion_score.fr) < MaxDigits
    /\ pc' = "appended"
    /\ UNCHANGED <<vote_history, suspicion_score, status, triggered_rules,
                   current_prompt, signals>>

NextSaturate == apply_rules \/ next_update

SpecSaturate == InitSaturate /\ [][NextSaturate]_vars

(***************************************************************************)
(* Vocabulary of the properties.                                           *)
(***************************************************************************)
ScaleUnit == 10 * 10 * 10 * 10 * 10 * 10

RECURSIVE FracValue(_, _)
FracValue(ds, i) ==
    IF i > Len(ds) \/ i > 6 THEN 0
    ELSE ds[i] * (10 ^ (6 - i)) + FracValue(ds, i + 1)

\* the score in millionths (scores of at most six decimals)
Scaled(s) == s.ip * ScaleUnit + FracValue(s.fr, 1)

\* a < b for two scores
DigitsLess(a, b) ==
    \E k \in 1..Len(b) :
        /\ \A j \in 1..(k - 1) : j <= Len(a) /\ a[j] = b[j]
        /\ k > Len(a) \/ a[k] < b[k]

\* s / 10, for s >= 0
Tenth(s) == [ip |-> s.ip \div 10, fr |-> <<s.ip % 10>> \o s.fr]

\* a + b, digit by digit
Sum(a, b) ==
    LET n == IF Len(a.fr) >= Len(b.fr) THEN Len(a.fr) ELSE Len(b.fr)
        da[i \in 1..n] == IF i <= Len(a.fr) THEN a.fr[i] ELSE 0
        db[i \in 1..n] == IF i <= Len(b.fr) THEN b.fr[i] ELSE 0
        carry[i \in 0..n] == IF i = n THEN 0 ELSE (da[i + 1] + db[i + 1] + carry[i + 1]) \div 10
    IN  [ip |-> a.ip + b.ip + carry[0],
         fr |-> StripZeros([i \in 1..n |-> (da[i] + db[i] + carry[i]) % 10])]

\* new = 0.9 * old, as new + old / 10 = old
NineTenths(new, old) == Sum(new, Tenth(old)) = old

\* the evaluations at the end of history h that only decayed the score
RECURSIVE QuietRun(_, _)
QuietRun(h, i) ==
    IF i < 3 THEN 0
    ELSE IF NineTenths(h[i].suspicion_score_after, h[i - 1].suspicion_score_after)
         THEN 1 + QuietRun(h, i - 1)
         ELSE 0

Less(a, b) == a.ip < b.ip \/ (a.ip = b.ip /\ DigitsLess(a.fr, b.fr))

N == Len(vote_history)

\* the step records a vote
VoteStep == Len(vote_history') = Len(vote_history) + 1

\* the step records a vote and evaluates it
EvalStep == VoteStep /\ Len(vote_history') >= 3

ComboNames == {"Fast & Biased", "Biased & Repetitive Battles",
               "Fast & Repetitive Prompts", "Fast & Excessive Ties"}

FallbackNames == {"Strong Bias", "Fast Voting"}

PenaltyOf(name) ==
    CASE name = "Fast & Biased" -> 4
      [] name = "Biased & Repetitive Battles" -> 3
      [] name = "Fast & Repetitive Prompts" -> 2
      [] name = "Fast & Excessive Ties" -> 2
      [] name = "Strong Bias" -> 1
      [] name = "Fast Voting" -> 1

RECURSIVE PenaltySum(_)
PenaltySum(names) ==
    IF names = {} THEN 0
    ELSE LET n == CHOOSE x \in names : TRUE IN PenaltyOf(n) + PenaltySum(names \ {n})

\* new = 0.9 * old + p
DecayedPlus(new, old, p) == 10 * Scaled(new) = 9 * Scaled(old) + 10 * p * ScaleUnit

Rank(st) == CASE st = StatusNormal -> 0 [] st = StatusSuspicious -> 1 [] st = StatusFlagged -> 2

\* the rule names of the rule table for the signals of history h: the
\* combination rules whose two signals hold, else the first fallback rule
FiredNames(h) ==
    LET fast == h[Len(h)].tstamp - h[Len(h) - 1].tstamp < 3
        bias == Len(h) >= 5 /\ \E w \in {"model_a", "model_b"} :
                    \A i \in (Len(h) - 4)..Len(h) : h[i].winner = w
        battle == \E i \in 1..Len(h) :
                    Cardinality({j \in 1..Len(h) : h[j].battle_pair = h[i].battle_pair}) > 5
        prompt == Len(h) > 5 /\ 10 * Cardinality({h[i].prompt : i \in 1..Len(h)}) < 3 * Len(h)
        ties == Len(h) > 5 /\
                10 * Cardinality({i \in 1..Len(h) : h[i].winner \in {"tie", "tie (bothbad)"}})
                    > 8 * Len(h)
        combos == (IF fast /\ bias THEN {"Fast & Biased"} ELSE {})
                  \cup (IF bias /\ battle THEN {"Biased & Repetitive Battles"} ELSE {})
                  \cup (IF fast /\ prompt THEN {"Fast & Repetitive Prompts"} ELSE {})
                  \cup (IF fast /\ ties THEN {"Fast & Excessive Ties"} ELSE {})
    IN  IF combos # {} THEN combos
        ELSE IF bias THEN {"Strong Bias"}
        ELSE IF fast THEN {"Fast Voting"}
        ELSE {}

(***************************************************************************)
(* Properties.                                                             *)
(***************************************************************************)

\* C1: in every reachable state the stored status is the class of the stored
\* score: FLAGGED iff score >= 10, SUSPICIOUS iff 5 <= score < 10, NORMAL
\* iff score < 5.
C1_StatusIsClassOfScore ==
    /\ status \in {StatusNormal, StatusSuspicious, StatusFlagged}
    /\ status = StatusFlagged <=> suspicion_score.ip >= 10
    /\ status = StatusSuspicious <=> (suspicion_score.ip >= 5 /\ suspicion_score.ip < 10)
    /\ status = StatusNormal <=> suspicion_score.ip < 5

\* a judge whose score passed 10 and is FLAGGED
C1_Witness == N >= 3 /\ status = StatusFlagged /\ suspicion_score.ip >= 10

\* C2: the suspicion score is never negative.
C2_ScoreNonNegative == suspicion_score.ip >= 0

\* an evaluated score with a fractional part: decay and penalties have acted
C2_Witness == N >= 4 /\ suspicion_score.fr # <<>> /\ suspicion_score.ip >= 1

\* C3: a vote that leaves the history shorter than 3 events changes neither
\* score nor status nor triggered_rules; the history grows by one event.
C3_ShortHistoryNoOp ==
    [][(Len(vote_history') # Len(vote_history) /\ Len(vote_history') < 3)
        => /\ suspicion_score' = suspicion_score
           /\ status' = status
           /\ triggered_rules' = triggered_rules
           /\ Len(vote_history') = Len(vote_history) + 1]_vars

\* two votes less than 3 s apart, recorded and not evaluated
C3_Witness ==
    /\ N = 2
    /\ vote_history[2].tstamp - vote_history[1].tstamp < 3
    /\ suspicion_score = Zero /\ triggered_rules = {}

\* C4: an evaluation (history >= 3) leaves the score at 0.9 * s when no rule
\* fires and at 0.9 * s plus the penalties of the rules that fire, s being
\* the score before it: decay is applied exactly once.
C4_DecayOnce ==
    [][EvalStep =>
        /\ triggered_rules' = {} => 10 * Scaled(suspicion_score') = 9 * Scaled(suspicion_score)
        /\ DecayedPlus(suspicion_score', suspicion_score, PenaltySum(triggered_rules'))]_vars

\* a positive score that the last evaluation only decayed
C4_Witness ==
    /\ N >= 4 /\ triggered_rules = {}
    /\ suspicion_score.fr # <<>>
    /\ 10 * Scaled(suspicion_score) = 9 * Scaled(vote_history[N - 1].suspicion_score_after)
    /\ Scaled(vote_history[N - 1].suspicion_score_after) > 0

\* C5: when a combination rule's two signals hold at an evaluation,
\* triggered_rules holds combination names only; "Strong Bias" and "Fast
\* Voting" never stand beside a combination name.
C5_CombinationDominates ==
    /\ triggered_rules \cap FallbackNames # {} => triggered_rules \cap ComboNames = {}
    /\ N >= 3 =>
         LET sig == Signals(vote_history)
         IN  ((sig.fast /\ (sig.bias \/ sig.prompt \/ sig.ties)) \/ (sig.bias /\ sig.battle))
               => (triggered_rules # {} /\ triggered_rules \subseteq ComboNames)

\* strong bias and a fast vote together: only the combination rule is named
C5_Witness ==
    /\ N >= 5
    /\ has_strong_bias(vote_history) /\ is_fast_vote(vote_history)
    /\ "Fast & Biased" \in triggered_rules

\* the scenario of C6 on a history h: six votes for model A, the 2nd to 5th
\* each at least 3 s after the previous one, the 6th less than 3 s after the 5th
FastBiasedScenario(h) ==
    /\ Len(h) = 6
    /\ \A i \in 1..6 : h[i].winner = "model_a"
    /\ \A i \in 2..5 : h[i].tstamp - h[i - 1].tstamp >= 3
    /\ h[6].tstamp - h[5].tstamp < 3

\* C6, as stated: in the scenario the 6th evaluation leaves triggered_rules
\* == {"Fast & Biased"} and score == 0.9 * s_prev + 4.
C6_FastBiasedOnly ==
    FastBiasedScenario(vote_history) =>
        /\ triggered_rules = {"Fast & Biased"}
        /\ DecayedPlus(suspicion_score, vote_history[5].suspicion_score_after, 4)

\* C6, amended: the six votes are on the one battle pair of the vote handler,
\* so "Biased & Repetitive Battles" fires with "Fast & Biased" (and "Fast &
\* Repetitive Prompts" when the six prompts are the same): the score is
\* 0.9 * s_prev + 7, plus 2 when the six prompts are the same.
C6_FastBiasedAndBattles ==
    [][(VoteStep /\ FastBiasedScenario(vote_history')) =>
        LET same == \A i \in 1..6 : vote_history'[i].prompt = vote_history'[1].prompt
        IN  /\ triggered_rules' = {"Fast & Biased", "Biased & Repetitive Battles"}
                  \cup (IF same THEN {"Fast & Repetitive Prompts"} ELSE {})
            /\ DecayedPlus(suspicion_score', suspicion_score, IF same THEN 9 ELSE 7)]_vars

\* the scenario, reached with two distinct prompts in the history
C6_Witness ==
    /\ FastBiasedScenario(vote_history)
    /\ "Biased & Repetitive Battles" \in triggered_rules
    /\ vote_history[1].prompt # vote_history[2].prompt

\* the last two votes of h are less than 3 s apart
FastOf(h) == h[Len(h)].tstamp - h[Len(h) - 1].tstamp < 3

\* the last five winners of h are the same model
BiasOf(h) ==
    /\ Len(h) >= 5
    /\ \E w \in {"model_a", "model_b"} : \A i \in (Len(h) - 4)..Len(h) : h[i].winner = w

\* C7: an evaluation (history >= 3) in which fast-vote and strong-bias are
\* both false fires no rule, whatever the repetitive-battle,
\* repetitive-prompt and excessive-ties signals: triggered_rules is empty and
\* the score is 0.9 times the score before.
C7_NoStandaloneRule ==
    [][(EvalStep /\ ~FastOf(vote_history') /\ ~BiasOf(vote_history')) =>
        /\ triggered_rules' = {}
        /\ DecayedPlus(suspicion_score', suspicion_score, 0)]_vars

\* six votes on one pair and one prompt, more than 80% of them ties, the
\* last one unhurried: the three other signals hold and no rule has fired
C7_Witness ==
    /\ N = 6
    /\ is_repetitive_battle(vote_history)
    /\ is_repetitive_prompt(vote_history)
    /\ has_excessive_ties(vote_history)
    /\ ~FastOf(vote_history) /\ ~BiasOf(vote_history)
    /\ triggered_rules = {}
    /\ suspicion_score # Zero

\* C8: after every vote the suspicion_score_after of the last event is the
\* score of the session state.
C8_AuditIsScoreAfter ==
    N > 0 => vote_history[N].suspicion_score_after = suspicion_score

\* an evaluation that changed the score, recorded on its event
C8_Witness ==
    /\ N >= 4
    /\ vote_history[N].suspicion_score_after = suspicion_score
    /\ vote_history[N].suspicion_score_after # vote_history[N - 1].suspicion_score_after

\* C9: an evaluation in which no rule fires never raises the status and
\* gives the decayed score its status at once (SUSPICIOUS as soon as the
\* score is below 10, NORMAL as soon as it is below 5); after 30 evaluations
\* in a row in which no rule fires the status is NORMAL, and it stays NORMAL
\* while no rule fires.
C9_NoHysteresis ==
    [][(EvalStep /\ triggered_rules' = {}) =>
        /\ Rank(status') <= Rank(status)
        /\ NineTenths(suspicion_score', suspicion_score)
        /\ suspicion_score'.ip < 10 => status' # StatusFlagged
        /\ suspicion_score'.ip < 5 => status' = StatusNormal
        /\ QuietRun(vote_history', Len(vote_history')) >= 30 => status' = StatusNormal]_vars

\* a judge who was FLAGGED, then SUSPICIOUS, and is NORMAL again
C9_Witness ==
    /\ status = StatusNormal
    /\ triggered_rules = {}
    /\ QuietRun(vote_history, N) >= 9
    /\ \E i \in 1..N : \E j \in i..N :
          /\ vote_history[i].suspicion_score_after.ip >= 10
          /\ vote_history[j].suspicion_score_after.ip \in 5..9

\* C10: after every evaluation (history >= 3) triggered_rules is exactly the
\* set of rules that fired in it; names of earlier evaluations are gone.
C10_TriggeredReplaced ==
    [][EvalStep => triggered_rules' = FiredNames(vote_history')]_vars

\* a rule fired at the evaluation before the last, none at the last
C10_Witness ==
    /\ N >= 4
    /\ triggered_rules = {}
    /\ 10 * Scaled(vote_history[N - 1].suspicion_score_after)
          > 9 * Scaled(vote_history[N - 2].suspicion_score_after)

\* the events that carry no suspicion_score_after yet
Unaudited ==
    {i \in 1..Len(vote_history) : "suspicion_score_after" \notin DOMAIN vote_history[i]}

C12_AppendOnly ==
    [][/\ Len(vote_history') \in {Len(vote_history), Len(vote_history) + 1}
       /\ SubSeq(vote_history', 1, Len(vote_history)) = vote_history
       /\ VoteStep =>
             /\ vote_history'[Len(vote_history')].prompt = current_prompt
             /\ vote_history'[Len(vote_history')].suspicion_score_after = suspicion_score'
             /\ \A i \in 1..Len(vote_history) :
                   vote_history[i].tstamp < vote_history'[Len(vote_history')].tstamp]_vars

\* four votes or more are stored, the last two with different non-zero audit values
C12_Witness ==
    /\ N >= 4
    /\ vote_history[N - 1].suspicion_score_after # Zero
    /\ vote_history[N].suspicion_score_after # Zero
    /\ vote_history[N].suspicion_score_after # vote_history[N - 1].suspicion_score_after

\* the step records again the event that was recorded last
ReplayStep ==
    /\ VoteStep
    /\ N >= 1
    /\ vote_history'[N + 1].winner = vote_history[N].winner
    /\ vote_history'[N + 1].tstamp = vote_history[N].tstamp
    /\ vote_history'[N + 1].prompt = vote_history[N].prompt

\* the result {score, status, triggered_rules} changes in the step
ResultChanges ==
    <<suspicion_score, status, triggered_rules>>'
        # <<suspicion_score, status, triggered_rules>>

\* C13 as stated: for every judge state and every vote event, recording the
\* same event a second time gives a result different from recording it once.
C13_NeverIdempotent == [][ReplayStep => ResultChanges]_vars

\* C13: for a judge who had at least one vote before the event, recording
\* the same event a second time is evaluated, fires at least one rule (the
\* two last time stamps are equal), leaves 0.9 * the score of the first
\* recording + the penalties fired, and a result different from the first
\* recording's; for a judge who had no vote, neither recording is evaluated
\* and the results are the same.
C13_SecondCallCounts ==
    [][ReplayStep =>
         IF N >= 2
         THEN /\ triggered_rules' # {}
              /\ "Strong Bias" \notin triggered_rules'
              /\ DecayedPlus(suspicion_score', suspicion_score,
                             PenaltySum(triggered_rules'))
              /\ ResultChanges
         ELSE ~ResultChanges]_vars

\* an event recorded twice by a judge whose earlier votes had left a score:
\* the second recording added to the decayed score
C13_Witness ==
    /\ N >= 4
    /\ vote_history[N].tstamp = vote_history[N - 1].tstamp
    /\ vote_history[N].winner = vote_history[N - 1].winner
    /\ vote_history[N].prompt = vote_history[N - 1].prompt
    /\ vote_history[N - 1].suspicion_score_after # Zero
    /\ Scaled(suspicion_score) > Scaled(vote_history[N - 1].suspicion_score_after)

\* C14: a vote whose winner is not one of the four outcomes is rejected at
\* ingestion: it is never appended, so every stored event has a winner of
\* the closed set and no such vote is counted by a signal or changes the
\* score, the status or triggered_rules.
C14_InvalidWinnerRejected ==
    \A i \in 1..Len(vote_history) : vote_history[i].winner \in Winners

\* the combination rules whose two signals hold in the signals sig
CombosOf(sig) ==
    {n \in ComboNames :
        \/ n = "Fast & Biased" /\ sig.fast /\ sig.bias
        \/ n = "Biased & Repetitive Battles" /\ sig.bias /\ sig.battle
        \/ n = "Fast & Repetitive Prompts" /\ sig.fast /\ sig.prompt
        \/ n = "Fast & Excessive Ties" /\ sig.fast /\ sig.ties}

\* C15: after every evaluation (history >= 3) the new score is 0.9 * the old
\* score + the sum of the penalties of the names in triggered_rules (4, 3, 2,
\* 2, 1, 1 by the rule table), and every combination rule whose two signals
\* hold is in triggered_rules, however many of them there are.
C15_PenaltiesAdditive ==
    [][EvalStep =>
         /\ DecayedPlus(suspicion_score', suspicion_score, PenaltySum(triggered_rules'))
         /\ triggered_rules' \cap ComboNames = CombosOf(Signals(vote_history'))]_vars

\* three combination rules fired from the same vote: 4 + 3 + 2 were added
C15_Witness ==
    /\ N >= 6
    /\ Cardinality(triggered_rules \cap ComboNames) >= 3
    /\ PenaltySum(triggered_rules) = 9
    /\ DecayedPlus(suspicion_score, vote_history[N - 1].suspicion_score_after, 9)

\* the two-phase scheme: all combination rules first; the individual
\* fallback rules only when no combination rule fired
TwoPhaseNames(sig) ==
    IF CombosOf(sig) # {} THEN CombosOf(sig)
    ELSE {n \in FallbackNames :
             \/ n = "Strong Bias" /\ sig.bias
             \/ n = "Fast Voting" /\ sig.fast}

\* the step is the evaluation of the rules on the drawn signals
RulesStep == pc = "appended" /\ pc' = "evaluated"

\* C16: for each of the 32 combinations of the five signals the rule
\* statements, run in sequence on the mutable set `triggered`, leave the rule
\* names and the score delta of the two-phase scheme; "Strong Bias" and
\* "Fast Voting" never fire in the same evaluation.
C16_TwoPhaseEquivalent ==
    [][RulesStep =>
         /\ triggered_rules' = TwoPhaseNames(signals)
         /\ DecayedPlus(suspicion_score', suspicion_score,
                        PenaltySum(TwoPhaseNames(signals)))
         /\ ~(FallbackNames \subseteq triggered_rules')]_vars

\* an evaluation in which no combination rule fired and a fallback rule did,
\* with two other signals true
C16_Witness ==
    /\ pc = "evaluated"
    /\ signals.bias /\ signals.prompt /\ signals.ties
    /\ ~signals.fast /\ ~signals.battle
    /\ triggered_rules = {"Strong Bias"}
    /\ suspicion_score.ip >= 1

TieOutcomes == {"tie", "tie (bothbad)"}

BiasNames == {"Fast & Biased", "Biased & Repetitive Battles", "Strong Bias"}

\* the last k winners of the history are all tie outcomes
LastAreTies(k) ==
    /\ N >= k
    /\ \A i \in (N - k + 1)..N : vote_history[i].winner \in TieOutcomes

\* C17: when the last 5 winners are all tie outcomes, in any mix, or the
\* history has fewer than 5 events, strong-bias is false and none of
\* "Fast & Biased", "Biased & Repetitive Battles" and "Strong Bias" is in
\* triggered_rules.
C17_TiesAreNotBias ==
    (N < 5 \/ LastAreTies(5)) =>
        /\ ~has_strong_bias(vote_history)
        /\ triggered_rules \cap BiasNames = {}

\* six votes, the last five all "tie", the last one fast: a rule fired,
\* and it is not a bias rule
C17_Witness ==
    /\ N = 6
    /\ \A i \in 2..6 : vote_history[i].winner = "tie"
    /\ triggered_rules # {}
    /\ triggered_rules \cap BiasNames = {}

\* C18: the score is strictly below 110 in every reachable state: an
\* evaluation multiplies it by 0.9 and adds at most 4 + 3 + 2 + 2 = 11.
C18_ScoreBelow110 == suspicion_score.ip < 110

\* all four combination rules fired at every evaluation and the score has
\* come within 2 of the bound
C18_Witness ==
    /\ pc = "evaluated"
    /\ triggered_rules = ComboNames
    /\ suspicion_score.ip >= 108

\* C19: while the history has at most 5 events the judge is not FLAGGED and
\* the score is at most 5.71 = 0.9 * 1.9 + 4; with 3 or 4 events only
\* "Fast Voting" can be in triggered_rules, with 5 events only
\* "Fast & Biased", "Strong Bias" or "Fast Voting".
C19_NotFlaggedBeforeSixth ==
    N <= 5 =>
        /\ status # StatusFlagged
        /\ Scaled(suspicion_score) <= 571 * (ScaleUnit \div 100)
        /\ N <= 2 => triggered_rules = {}
        /\ N \in {3, 4} => triggered_rules \subseteq {"Fast Voting"}
        /\ N = 5 => triggered_rules \subseteq {"Fast & Biased", "Strong Bias", "Fast Voting"}

\* five votes, the third and the fourth fast, the fifth fast and biased:
\* the score is 5.71 and the judge is SUSPICIOUS
C19_Witness ==
    /\ N = 5
    /\ triggered_rules = {"Fast & Biased"}
    /\ Scaled(suspicion_score) = 571 * (ScaleUnit \div 100)
    /\ status = StatusSuspicious

\* C20: every event carries the same battle_pair, so repetitive-battle holds
\* at every evaluation from the 6th vote on; "Strong Bias" is in
\* triggered_rules only after the evaluation of the 5th vote, and after every
\* evaluation with 6 events or more in which strong-bias holds
\* "Biased & Repetitive Battles" is in triggered_rules.
C20_SamePairAlways ==
    /\ \A i \in 1..N : vote_history[i].battle_pair = vote_history[1].battle_pair
    /\ N >= 6 => is_repetitive_battle(vote_history)
    /\ "Strong Bias" \in triggered_rules => N = 5
    /\ (N >= 6 /\ has_strong_bias(vote_history)) =>
          "Biased & Repetitive Battles" \in triggered_rules

\* six slow votes for model_b: "Strong Bias" fired at the 5th (score 1.0),
\* "Biased & Repetitive Battles" alone at the 6th
C20_Witness ==
    /\ N = 6
    /\ \A i \in 1..6 : vote_history[i].winner = "model_b"
    /\ vote_history[4].suspicion_score_after = Zero
    /\ vote_history[5].suspicion_score_after = [ip |-> 1, fr |-> <<>>]
    /\ vote_history[5].tstamp - vote_history[4].tstamp >= 3
    /\ triggered_rules = {"Biased & Repetitive Battles"}

====
